---------------------------- MODULE Spec2Model ----------------------------
(* glitchart: the JPEG byte corruptor jpeg() of src/glitchart/glitchart.py *)
(* and the adapters built on it (png, webp, mp4, mp4_async).               *)
(* Byte offsets are 0-based as in Python; a buffer is a sequence of bytes, *)
(* so the byte at offset k of buf is buf[k + 1].                           *)
EXTENDS Integers, Sequences, FiniteSets, TLC

VARIABLES
    pc,          \* position inside jpeg()
    fs,          \* the file system: path -> bytes, or Absent
    photo,       \* jpeg() argument: path of the input file
    seed,        \* jpeg() argument: the seed, or None
    arg,         \* jpeg() arguments min_amount and max_amount as passed
    inplace,     \* jpeg() argument
    out,         \* local: path of the output file
    min_amount,  \* local (the parameter, rebound by the normalisation)
    max_amount,  \* local (the parameter, rebound by the normalisation)
    amount,      \* local
    original,    \* local: the bytes read from photo
    start,       \* local
    end,         \* local
    data,        \* local: bytearray(original[start:end])
    glitched,    \* local: set of selected offsets into data
    done_iters,  \* number of completed iterations of "for _ in range(amount)"
    index,       \* local: the offset drawn last
    prng,        \* the generator: its seed and its position in the seed's stream
    tape,        \* the stream of the seed, as far as it has been drawn
    log,         \* the draws of the current call, in order
    call,        \* number of the current jpeg() call (1 or 2)
    prev,        \* what the first call left: its output and its draws
    fn,          \* the adapter called: "png", "webp", "mp4" or "mp4_async"
    files,       \* the adapters' file system: path -> kind of content
    astack,      \* call stack of png()/webp(): the frames' position and locals
    uuids,       \* number of uuid4() names handed out
    mpc,         \* position inside mp4() / mp4_async()
    mout,        \* mp4 local: out
    frames,      \* mp4 local: sorted(Path().rglob(...)) of line 220
    cur,         \* mp4 local: position of the loop of line 220 in frames
    logged,      \* mp4: log.error(e) was called
    visited,     \* mp4: the frame files the cleanup loop has been through
    kept,        \* mp4: the frame files whose os.remove raised OSError
    result       \* how the adapter call ended: "", "returned" or "raised"

jvars == <<pc, fs, photo, seed, arg, inplace, out, min_amount, max_amount, amount,
           original, start, end, data, glitched, done_iters, index>>
tvars == <<prng, tape, log, call, prev>>
avars == <<fn, files, astack, uuids, mpc, mout, frames, cur, logged, visited, kept, result>>
ovars == <<tvars, avars>>
vars == <<jvars, tvars, avars>>

----------------------------------------------------------------------------
(* Bounds of the model *)
MaxPayload == 2
MaxAmount == 2
MaxDraws == 5
SeededPayload == 2
SeededAmount == 2
MaxFrames == 2
FairPayload == 2
FairAmount == 2

(* Program constants *)
HeaderSkip == 10
ValueLo == 1
ValueHi == 254
SOS == <<255, 218>>
EOI == <<255, 217>>

\* an optional value: None, or a value x as <<x>>
None == <<>>
Some(x) == <<x>>
\* the content of a path that names no file: not a sequence of bytes
Absent == <<256>>

(* The byte values the inputs and the value draws are taken from: both marker *)
(* related values, both ends of randint(1, 254) and an ordinary byte.         *)
ByteSample == {0, 1, 7, 254, 255}
PayloadBytes == {0, 7, 255}

----------------------------------------------------------------------------
(* Python bytes operations *)

SetMin(S) == CHOOSE x \in S : \A y \in S : x <= y
SetMax(S) == CHOOSE x \in S : \A y \in S : x >= y

\* offsets at which pat occurs in buf
Occurrences(buf, pat) ==
    {k \in 0..(Len(buf) - Len(pat)) : SubSeq(buf, k + 1, k + Len(pat)) = pat}

\* bytes.index / bytes.rindex: defined when pat occurs, ValueError otherwise
Has(buf, pat) == Occurrences(buf, pat) # {}
IndexOf(buf, pat) == SetMin(Occurrences(buf, pat))
RIndexOf(buf, pat) == SetMax(Occurrences(buf, pat))

\* buf[a:b] for a, b >= 0: both ends are clamped to len(buf)
Slice(buf, a, b) ==
    LET lo == IF a > Len(buf) THEN Len(buf) ELSE a
        hi == IF b > Len(buf) THEN Len(buf) ELSE b
    IN  IF lo >= hi THEN <<>> ELSE SubSeq(buf, lo + 1, hi)

\* OUT_NAME_TEMPLATE.format(Path(photo).stem, "jpg")
OutName(p) == "glitch_" \o p

OutPath(p, inpl) == IF inpl THEN p ELSE OutName(p)

----------------------------------------------------------------------------
(* jpeg(): lines 93-100 *)
ClampMaxZero(mx) == IF mx < 0 THEN 0 ELSE mx

ClampMax(mx) == IF mx < 0 THEN 1 ELSE mx

Normalize(mn, mx) ==
    LET mn1 == IF mn < 0 THEN 0 ELSE mn
        mx1 == ClampMax(mx)
    IN  <<mn1, IF mn1 > mx1 THEN mn1 ELSE mx1>>

\* line 107, line 108
StartOf(buf) == IndexOf(buf, SOS) + Len(SOS) + HeaderSkip
EndOf(buf) == RIndexOf(buf, EOI)

\* line 118
EligibleNoFF(b) == b # 0

Eligible(b) == b \notin {0, 255}

\* the results randint(1, 254) is drawn from in the model
ValueDraws == {v \in ByteSample : ValueLo <= v /\ v <= ValueHi}

----------------------------------------------------------------------------
(* Inputs *)
Header == [k \in 1..HeaderSkip |-> 0]

RECURSIVE SeqsUpTo(_, _)
SeqsUpTo(S, n) ==
    IF n = 0 THEN {<<>>}
    ELSE LET shorter == SeqsUpTo(S, n - 1)
         IN  shorter \cup {Append(s, b) : s \in {t \in shorter : Len(t) = n - 1}, b \in S}

Payloads == SeqsUpTo(PayloadBytes, MaxPayload)

Buffers ==
    UNION {{ <<255, 216>> \o SOS \o Header \o p \o EOI,          \* SOI SOS header scan EOI
             SOS \o Header \o p \o EOI \o <<7>>,                 \* bytes after EOI
             SOS \o Header \o p \o EOI \o EOI,                   \* two EOI: the last one counts
             <<255, 216>> \o p \o EOI,                           \* no SOS
             SOS \o Header \o p,                                 \* no EOI
             EOI \o SOS \o Header \o p,                          \* EOI only before SOS
             SOS \o p \o EOI                                     \* EOI inside the scan header
           } : p \in Payloads}

AmountArgs == (0 - 1)..MaxAmount
Seeds == {None, Some(42)}

Locals0 ==
    /\ out = ""
    /\ min_amount = arg.min_amount
    /\ max_amount = arg.max_amount
    /\ amount = 0
    /\ original = <<>>
    /\ start = 0
    /\ end = 0
    /\ data = <<>>
    /\ glitched = {}
    /\ done_iters = 0
    /\ index = 0

\* no adapter is running
NoAdapter ==
    /\ fn = ""
    /\ files = <<>>
    /\ astack = <<>>
    /\ uuids = 0
    /\ mpc = ""
    /\ mout = ""
    /\ frames = <<>>
    /\ cur = 0
    /\ logged = FALSE
    /\ visited = {}
    /\ kept = {}
    /\ result = ""

Init ==
    /\ pc = "norm"
    /\ photo = "a.jpg"
    /\ \E b \in Buffers : fs = [p \in {photo, OutName(photo)} |-> IF p = photo THEN b ELSE Absent]
    /\ seed = None      \* no action of Spec reads the seed: its draws are arbitrary
    /\ arg \in [min_amount : AmountArgs, max_amount : AmountArgs]
    /\ inplace \in BOOLEAN
    /\ Locals0
    /\ prng = [seed |-> None, pos |-> 0]
    /\ tape = <<>>
    /\ log = <<>>
    /\ call = 1
    /\ prev = [pc |-> "", input |-> <<>>, log |-> <<>>, output |-> Absent]
    /\ NoAdapter

----------------------------------------------------------------------------
(* jpeg(), step by step *)

\* lines 90, 93-100: the output path and the normalisation (line 91, the
\* generator, is SeededSetup's: here the draws are arbitrary)
Setup ==
    /\ pc = "norm"
    /\ out' = OutPath(photo, inplace)
    /\ min_amount' = Normalize(min_amount, max_amount)[1]
    /\ max_amount' = Normalize(min_amount, max_amount)[2]
    /\ pc' = "amount"
    /\ UNCHANGED <<fs, photo, seed, arg, inplace, amount, original, start, end, data,
                   glitched, done_iters, index>>

\* line 102: amount = prng.randint(min_amount, max_amount)
DrawAmount(a) ==
    /\ pc = "amount"
    /\ a \in min_amount..max_amount
    /\ amount' = a
    /\ pc' = "read"
    /\ UNCHANGED <<fs, photo, seed, arg, inplace, out, min_amount, max_amount, original,
                   start, end, data, glitched, done_iters, index>>

\* where the loop of line 113 goes with n iterations done
LoopHeadEarly(n, amt) == IF n < amt - 1 THEN "pick" ELSE "write"

LoopHead(n, amt) == IF n < amt THEN "pick" ELSE "write"

\* lines 104-111: read the file, find the markers, copy the scan region.
\* bytes.index and bytes.rindex raise ValueError when the marker is absent.
ReadMarkers ==
    /\ pc = "read"
    /\ original' = fs[photo]
    /\ IF ~Has(original', SOS)
       THEN /\ pc' = "failed"
            /\ UNCHANGED <<start, end, data, glitched>>
       ELSE /\ start' = StartOf(original')
            /\ IF ~Has(original', EOI)
               THEN /\ pc' = "failed"
                    /\ UNCHANGED <<end, data, glitched>>
               ELSE /\ end' = EndOf(original')
                    /\ data' = Slice(original', start', end')
                    /\ glitched' = {}
                    /\ pc' = LoopHead(0, amount)
    /\ UNCHANGED <<fs, photo, seed, arg, inplace, out, min_amount, max_amount, amount,
                   done_iters, index>>

\* lines 114-120: one draw of the offset loop. randrange(0) raises ValueError.
DrawOffsetFail ==
    /\ pc = "pick"
    /\ Len(data) = 0
    /\ pc' = "failed"
    /\ UNCHANGED <<fs, photo, seed, arg, inplace, out, min_amount, max_amount, amount,
                   original, start, end, data, glitched, done_iters, index>>

AcceptsAgain(k) == Eligible(data[k + 1])

Accepts(k) == k \notin glitched /\ Eligible(data[k + 1])

DrawOffset(k) ==
    /\ pc = "pick"
    /\ k \in 0..(Len(data) - 1)
    /\ index' = k
    /\ IF Accepts(k)
       THEN glitched' = glitched \cup {k} /\ pc' = "value"
       ELSE UNCHANGED <<glitched, pc>>
    /\ UNCHANGED <<fs, photo, seed, arg, inplace, out, min_amount, max_amount, amount,
                   original, start, end, data, done_iters>>

\* lines 122-127: one draw of the value loop
DrawValue(v) ==
    /\ pc = "value"
    /\ v \in ValueDraws
    /\ IF data[index + 1] # v
       THEN /\ data' = [data EXCEPT ![index + 1] = v]
            /\ done_iters' = done_iters + 1
            /\ pc' = LoopHead(done_iters', amount)
       ELSE UNCHANGED <<data, done_iters, pc>>
    /\ UNCHANGED <<fs, photo, seed, arg, inplace, out, min_amount, max_amount, amount,
                   original, start, end, glitched, index>>

\* lines 129-134
OutputNoTail == Slice(original, 0, start) \o data

Output == Slice(original, 0, start) \o data \o Slice(original, end, Len(original))

Write ==
    /\ pc = "write"
    /\ fs' = [fs EXCEPT ![out] = Output]
    /\ pc' = "done"
    /\ UNCHANGED <<photo, seed, arg, inplace, out, min_amount, max_amount, amount,
                   original, start, end, data, glitched, done_iters, index>>

----------------------------------------------------------------------------
(* One call of jpeg() with a generator whose draws are not constrained: *)
(* the results of any seed, or of no seed.                              *)
Next ==
    \/ Setup /\ UNCHANGED ovars
    \/ \E a \in min_amount..max_amount : DrawAmount(a) /\ UNCHANGED ovars
    \/ ReadMarkers /\ UNCHANGED ovars
    \/ DrawOffsetFail /\ UNCHANGED ovars
    \/ \E k \in 0..(Len(data) - 1) : DrawOffset(k) /\ UNCHANGED ovars
    \/ \E v \in ValueDraws : DrawValue(v) /\ UNCHANGED ovars
    \/ Write /\ UNCHANGED ovars

Spec == Init /\ [][Next]_vars

----------------------------------------------------------------------------
(* Properties of one call of jpeg() *)

\* the call has read the file and found both markers
Located == pc \in {"pick", "value", "write", "done"} \/ (pc = "failed" /\ Has(original, SOS) /\ Has(original, EOI))

\* the scan region as the specification defines it
RegionStart == IndexOf(original, SOS) + 2 + 10
RegionEnd == RIndexOf(original, EOI)
WellFormed ==
    /\ Has(original, SOS) /\ Has(original, EOI)
    /\ 0 <= RegionStart /\ RegionStart < RegionEnd /\ RegionEnd <= Len(original)

Returned == pc = "done"
Written == fs[out]

\* offsets at which the output differs from the input
Altered == {k \in 0..(Len(original) - 1) : Written[k + 1] # original[k + 1]}

\* C1: when jpeg() returns on a buffer with 0 <= start < end <= len(buffer), the
\* output has the length of the input and equals it at every offset outside
\* [start, end): output[:start] == input[:start], output[end:] == input[end:].
C1_ScopeContainment ==
    (Returned /\ WellFormed) =>
        /\ Len(Written) = Len(original)
        /\ \A k \in 0..(Len(original) - 1) :
              (k < RegionStart \/ k >= RegionEnd) => Written[k + 1] = original[k + 1]
        /\ Slice(Written, 0, RegionStart) = Slice(original, 0, RegionStart)
        /\ Slice(Written, RegionEnd, Len(Written)) = Slice(original, RegionEnd, Len(original))

C1_Witness ==
    /\ Returned /\ WellFormed
    /\ amount = 2
    /\ Written # original
    /\ RegionEnd + 2 < Len(original)

\* C2: during the selection/mutation loop and in the output, no scan-region byte
\* whose input value is 0x00 or 0xFF has been selected or altered.
C2_MarkerPreservation ==
    (pc \in {"pick", "value", "write", "done"}) =>
        \A k \in 0..(Len(data) - 1) :
            original[start + k + 1] \in {0, 255} =>
                /\ k \notin glitched
                /\ data[k + 1] = original[start + k + 1]
                /\ (Returned /\ WellFormed) => Written[start + k + 1] = original[start + k + 1]

C2_Witness ==
    /\ Returned /\ WellFormed
    /\ glitched # {}
    /\ \E j, k \in 0..(Len(data) - 1) : original[start + j + 1] = 0 /\ original[start + k + 1] = 255

\* C3: when jpeg() returns on a well-formed buffer, the selected offsets are
\* pairwise distinct (one new offset per iteration), the output differs from the
\* input at every selected offset, the number of offsets at which output and
\* input differ is the drawn amount, and min_amount <= amount <= max_amount.
C3_CountAndChange ==
    (Returned /\ WellFormed) =>
        /\ Cardinality(glitched) = amount
        /\ \A k \in glitched : Written[start + k + 1] # original[start + k + 1]
        /\ Cardinality(Altered) = amount
        /\ Altered = {start + k : k \in glitched}
        /\ min_amount <= amount /\ amount <= max_amount

C3_Witness ==
    /\ Returned /\ WellFormed
    /\ amount = 2
    /\ min_amount < max_amount
    /\ Cardinality(Altered) = 2

\* C4: normalisation: min_amount < 0 becomes 0; max_amount < 0 becomes 1; then
\* min_amount > max_amount makes max_amount = min_amount. The result satisfies
\* 0 <= min_amount <= max_amount; (-5, 10) gives (0, 10), (5, -1) gives (5, 5),
\* (8, 3) gives (8, 8).
C4_Normalization ==
    /\ Normalize(0 - 5, 10) = <<0, 10>>
    /\ Normalize(5, 0 - 1) = <<5, 5>>
    /\ Normalize(8, 3) = <<8, 8>>
    /\ (pc # "norm") =>
          LET mn == IF arg.min_amount < 0 THEN 0 ELSE arg.min_amount
              mx == IF arg.max_amount < 0 THEN 1 ELSE arg.max_amount
          IN  /\ min_amount = mn
              /\ max_amount = (IF mn > mx THEN mn ELSE mx)
              /\ 0 <= min_amount /\ min_amount <= max_amount

C4_Witness ==
    /\ pc = "amount"
    /\ arg.max_amount < 0
    /\ arg.min_amount = 0
    /\ max_amount = 1

\* C5: jpeg() fails and writes no output when the buffer has no SOS marker, no
\* EOI marker, or an empty or inverted scan region (end <= start), whatever
\* the drawn amount, 0 included.
C5_MalformedRejected ==
    Returned =>
        /\ Has(original, SOS) /\ Has(original, EOI)
        /\ RegionStart < RegionEnd

\* C7: the file system changes in one step only, the final write, taken after
\* all `amount` selections and mutations; a call that fails before it has
\* written neither the input file nor the output file, inplace or not.
C7_WriteOnlyAtEnd ==
    [][(fs' # fs) =>
          /\ pc = "write" /\ pc' = "done"
          /\ done_iters = amount
          /\ Cardinality(glitched) = amount
          /\ \A p \in DOMAIN fs : p # out => fs'[p] = fs[p]]_vars

C7_Witness ==
    /\ pc = "failed"
    /\ inplace
    /\ amount > 0
    /\ Has(original, SOS) /\ Has(original, EOI)
    /\ fs[photo] = original
    /\ fs[OutName(photo)] = Absent

----------------------------------------------------------------------------
(* One call of jpeg() on a buffer that has both markers, with fair draws: *)
(* the generator returns every offset and every value again and again.    *)
FairBuffers ==
    UNION {{ SOS \o Header \o p \o EOI \o <<7>>,
             SOS \o Header \o p \o EOI \o EOI } : p \in SeqsUpTo(PayloadBytes, FairPayload)}

FairInit ==
    /\ pc = "norm"
    /\ photo = "a.jpg"
    /\ \E b \in FairBuffers : fs = [p \in {photo, OutName(photo)} |-> IF p = photo THEN b ELSE Absent]
    /\ seed = None
    /\ arg \in [min_amount : (0 - 1)..FairAmount, max_amount : (0 - 1)..FairAmount]
    /\ inplace \in BOOLEAN
    /\ Locals0
    /\ prng = [seed |-> None, pos |-> 0]
    /\ tape = <<>>
    /\ log = <<>>
    /\ call = 1
    /\ prev = [pc |-> "", input |-> <<>>, log |-> <<>>, output |-> Absent]
    /\ NoAdapter

\* the longest scan region of the inputs
RegionBound == FairPayload + Len(EOI)

FairDraws ==
    /\ WF_vars(Setup /\ UNCHANGED ovars)
    /\ WF_vars(\E a \in min_amount..max_amount : DrawAmount(a) /\ UNCHANGED ovars)
    /\ WF_vars(ReadMarkers /\ UNCHANGED ovars)
    /\ WF_vars(DrawOffsetFail /\ UNCHANGED ovars)
    /\ \A k \in 0..(RegionBound - 1) : WF_vars(DrawOffset(k) /\ UNCHANGED ovars)
    /\ \A v \in ValueDraws : WF_vars(DrawValue(v) /\ UNCHANGED ovars)
    /\ WF_vars(Write /\ UNCHANGED ovars)

FairSpec == FairInit /\ [][Next]_vars /\ FairDraws

\* number of scan-region bytes of the input that are neither 0x00 nor 0xFF
EligibleCount == Cardinality({k \in 0..(Len(data) - 1) : original[start + k + 1] \notin {0, 255}})

NothingWritten == fs[photo] = original /\ fs[OutName(photo)] = Absent

\* C9: on a buffer with a non-empty scan region and with fair draws, jpeg()
\* terminates if and only if at least `amount` scan-region bytes are neither 0x00
\* nor 0xFF; with fewer, the offset loop never exits and nothing is written. The
\* value loop always terminates.
C9_Termination ==
    /\ []((Located /\ WellFormed /\ EligibleCount < amount) =>
             (pc \in {"pick", "value"} /\ NothingWritten))
    /\ (pc \in {"pick", "value", "write"} /\ WellFormed /\ EligibleCount >= amount) ~> Returned
    /\ (pc = "value") ~> (pc # "value")

C9_Witness ==
    /\ pc = "pick"
    /\ WellFormed
    /\ EligibleCount >= 1
    /\ EligibleCount < amount
    /\ Cardinality(glitched) = EligibleCount
    /\ \A k \in glitched : data[k + 1] # original[start + k + 1]

----------------------------------------------------------------------------
(* Two calls of jpeg() with the same arguments, the generator seeded as in *)
(* line 91: the stream of a seed is fixed, so a draw at a position of the  *)
(* stream that was drawn before returns what it returned then. Random(None) *)
(* seeds from the system and is bound by no earlier draw.                  *)

\* line 91: prng = Random(seed)
RandomUnseeded(s) == [seed |-> None, pos |-> 0]

Random(s) == [seed |-> s, pos |-> 0]

\* the generator returns v for a draw from lo..hi
Draw(kind, lo, hi, v) ==
    LET p == prng.pos + 1
    IN  /\ p <= MaxDraws
        /\ IF prng.seed = None
           THEN tape' = tape
           ELSE IF p <= Len(tape)
                THEN /\ (tape[p].lo = lo /\ tape[p].hi = hi) => v = tape[p].v
                     /\ tape' = tape
                ELSE tape' = Append(tape, [lo |-> lo, hi |-> hi, v |-> v])
        /\ prng' = [prng EXCEPT !.pos = p]
        /\ log' = Append(log, <<kind, v>>)
        /\ UNCHANGED <<call, prev, avars>>

SeededSetup ==
    /\ Setup
    /\ prng' = Random(seed)
    /\ log' = <<>>
    /\ UNCHANGED <<tape, call, prev, avars>>

\* the caller calls jpeg() again with the arguments of the first call
Again ==
    /\ call = 1
    /\ pc \in {"done", "failed"}
    /\ call' = 2
    /\ prev' = [pc |-> pc, input |-> original, log |-> log,
                output |-> IF pc = "done" THEN fs[out] ELSE Absent]
    /\ pc' = "norm"
    /\ out' = ""
    /\ min_amount' = arg.min_amount
    /\ max_amount' = arg.max_amount
    /\ amount' = 0
    /\ original' = <<>>
    /\ start' = 0
    /\ end' = 0
    /\ data' = <<>>
    /\ glitched' = {}
    /\ done_iters' = 0
    /\ index' = 0
    /\ UNCHANGED <<fs, photo, seed, arg, inplace, prng, tape, log, avars>>

SeededBuffers ==
    UNION {{ SOS \o Header \o p \o EOI,
             <<255, 216>> \o p \o EOI } : p \in SeqsUpTo(PayloadBytes, SeededPayload)}

SeededInit ==
    /\ pc = "norm"
    /\ photo = "a.jpg"
    /\ \E b \in SeededBuffers : fs = [p \in {photo, OutName(photo)} |-> IF p = photo THEN b ELSE Absent]
    /\ seed \in Seeds
    /\ arg \in [min_amount : 0..SeededAmount, max_amount : {SeededAmount}]
    /\ inplace = FALSE
    /\ Locals0
    /\ prng = [seed |-> None, pos |-> 0]
    /\ tape = <<>>
    /\ log = <<>>
    /\ call = 1
    /\ prev = [pc |-> "", input |-> <<>>, log |-> <<>>, output |-> Absent]
    /\ NoAdapter

SeededNext ==
    \/ SeededSetup
    \/ \E a \in min_amount..max_amount : DrawAmount(a) /\ Draw("amount", min_amount, max_amount, a)
    \/ ReadMarkers /\ UNCHANGED ovars
    \/ DrawOffsetFail /\ UNCHANGED ovars
    \/ \E k \in 0..(Len(data) - 1) : DrawOffset(k) /\ Draw("offset", 0, Len(data) - 1, k)
    \/ \E v \in ValueDraws : DrawValue(v) /\ Draw("value", ValueLo, ValueHi, v)
    \/ Write /\ UNCHANGED ovars
    \/ Again

SpecSeeded == SeededInit /\ [][SeededNext]_vars

\* the draws of a call come in the order of the code: the amount first, then per
\* selection the offset draws followed by the value draws
DrawOrder(l) ==
    /\ Len(l) >= 1 => l[1][1] = "amount"
    /\ \A n \in 2..Len(l) :
          /\ l[n][1] \in {"offset", "value"}
          /\ l[n][1] = "value" => l[n - 1][1] \in {"offset", "value"}
          /\ l[n - 1][1] = "amount" => l[n][1] = "offset"

\* C6: two runs of jpeg() on the same input bytes with the same non-null seed and
\* the same min_amount and max_amount consume the same sequence of draws (the
\* amount first, then per selection the offset draws and the value draws) and
\* write byte-identical outputs.
C6_Determinism ==
    (call = 2 /\ pc \in {"done", "failed"} /\ seed # None /\ original = prev.input) =>
        /\ pc = prev.pc
        /\ log = prev.log
        /\ DrawOrder(log)
        /\ Returned => fs[out] = prev.output

C6_Witness ==
    /\ call = 2 /\ Returned /\ seed # None /\ original = prev.input
    /\ ~inplace
    /\ amount = 2
    /\ min_amount < max_amount
    /\ Len(log) = MaxDraws
    /\ fs[out] # original

----------------------------------------------------------------------------
(* The adapters: png(), webp(), mp4(), mp4_async(). A file is modelled by *)
(* the kind of its content; the calls into PIL, ffmpeg, jpeg() and         *)
(* os.remove are steps that succeed or raise.                              *)

Video == "in"
VideoOut(inpl) == IF inpl THEN Video ELSE "in_glitch"

\* "{}.jpg".format(uuid4()), "{}.png".format(uuid4()): the n-th name handed out
UuidName(n) == "uuid" \o ToString(n)
TempPaths == {UuidName(n) \o ext : n \in 1..2, ext \in {".jpg", ".png"}}

\* "{uuid}_%8d.jpg"
FramePath(u, n) == u \o "_" \o ToString(n) \o ".jpg"
FramePaths == {FramePath(UuidName(1), n) : n \in 1..MaxFrames}

AllPaths == {Video, VideoOut(FALSE)} \cup TempPaths \cup FramePaths

\* Path().rglob(f"{uuid}_*.jpg")
RGlob == {p \in FramePaths : files[p] # "absent"}

RECURSIVE Sorted(_)
Sorted(S) ==
    IF S = {} THEN <<>>
    ELSE LET n == SetMin({k \in 1..MaxFrames : FramePath(UuidName(1), k) \in S})
         IN  <<FramePath(UuidName(1), n)>> \o Sorted(S \ {FramePath(UuidName(1), n)})

AdapterInit ==
    /\ pc = "idle"
    /\ photo = ""
    /\ fs = <<>>
    /\ seed = None
    /\ arg = [min_amount |-> 0, max_amount |-> 0]
    /\ inplace = FALSE
    /\ Locals0
    /\ prng = [seed |-> None, pos |-> 0]
    /\ tape = <<>>
    /\ log = <<>>
    /\ call = 1
    /\ prev = [pc |-> "", input |-> <<>>, log |-> <<>>, output |-> Absent]
    /\ fn \in {"png", "webp", "mp4", "mp4_async"}
    /\ files = [p \in AllPaths |-> IF p = Video THEN "image" ELSE "absent"]
    /\ \E inpl \in BOOLEAN :
          IF fn \in {"png", "webp"}
          THEN /\ astack = <<[fn |-> fn, pc |-> "open", photo |-> Video,
                              out |-> VideoOut(inpl), tmp |-> UuidName(1) \o (IF fn = "png" THEN ".jpg" ELSE ".png")]>>
               /\ mpc = ""
               /\ mout = ""
          ELSE /\ astack = <<>>
               /\ mpc = "probe"
               /\ mout = VideoOut(inpl)
    /\ frames = <<>>
    /\ uuids = 1
    /\ cur = 0
    /\ logged = FALSE
    /\ visited = {}
    /\ kept = {}
    /\ result = ""

Top == astack[Len(astack)]
At(f, where) == astack # <<>> /\ Top.fn = f /\ Top.pc = where
Goto(where) == astack' = [astack EXCEPT ![Len(astack)].pc = where]

\* png() and webp() handle no exception: a raise ends the whole call
Raise ==
    /\ astack' = <<>>
    /\ result' = "raised"

\* lines 148-154 (png), 175-178 (webp): open and convert the input image
Open(f, ok) ==
    /\ At(f, "open")
    /\ IF ok THEN Goto("save") /\ UNCHANGED result ELSE Raise
    /\ UNCHANGED <<fn, files, uuids, mpc, mout, frames, cur, logged, visited, kept>>

\* line 155 (png), 179 (webp): save the intermediate file. Image.save removes
\* the file it created when the encoder raises.
Save(f, ok) ==
    /\ At(f, "save")
    /\ IF ok
       THEN /\ files' = [files EXCEPT ![Top.tmp] = "image"]
            /\ Goto("corrupt") /\ UNCHANGED result
       ELSE /\ UNCHANGED files
            /\ Raise
    /\ UNCHANGED <<fn, uuids, mpc, mout, frames, cur, logged, visited, kept>>

\* line 157: jpeg(jpg_path, seed, min_amount, max_amount, True)
PngJpeg(ok) ==
    /\ At("png", "corrupt")
    /\ IF ok
       THEN /\ files' = [files EXCEPT ![Top.tmp] = "glitched"]
            /\ Goto("convert") /\ UNCHANGED result
       ELSE /\ UNCHANGED files
            /\ Raise
    /\ UNCHANGED <<fn, uuids, mpc, mout, frames, cur, logged, visited, kept>>

\* line 181: png(png_path, seed, min_amount, max_amount, True)
WebpPng ==
    /\ At("webp", "corrupt")
    /\ uuids' = uuids + 1
    /\ astack' = Append(astack, [fn |-> "png", pc |-> "open", photo |-> Top.tmp,
                                 out |-> Top.tmp, tmp |-> UuidName(uuids') \o ".jpg"])
    /\ UNCHANGED <<fn, files, mpc, mout, frames, cur, logged, visited, kept, result>>

\* line 159 (png), 183 (webp): decode the intermediate file and save the output
Convert(f, ok) ==
    /\ At(f, "convert")
    /\ IF ok
       THEN /\ files' = [files EXCEPT ![Top.out] = "glitched"]
            /\ Goto("remove") /\ UNCHANGED result
       ELSE /\ UNCHANGED files
            /\ Raise
    /\ UNCHANGED <<fn, uuids, mpc, mout, frames, cur, logged, visited, kept>>

\* line 161 (png), 185 (webp): os.remove of the intermediate file
Remove(f, ok) ==
    /\ At(f, "remove")
    /\ IF ok
       THEN /\ files' = [files EXCEPT ![Top.tmp] = "absent"]
            /\ Goto("return") /\ UNCHANGED result
       ELSE /\ UNCHANGED files
            /\ Raise
    /\ UNCHANGED <<fn, uuids, mpc, mout, frames, cur, logged, visited, kept>>

\* line 163 (png), 187 (webp): return; webp() goes on after line 181
Return ==
    /\ astack # <<>> /\ Top.pc = "return"
    /\ IF Len(astack) = 1
       THEN astack' = <<>> /\ result' = "returned"
       ELSE /\ astack' = [SubSeq(astack, 1, Len(astack) - 1) EXCEPT ![Len(astack) - 1].pc = "convert"]
            /\ UNCHANGED result
    /\ UNCHANGED <<fn, files, uuids, mpc, mout, frames, cur, logged, visited, kept>>

----------------------------------------------------------------------------
(* mp4() and mp4_async() *)

IsMp4 == fn \in {"mp4", "mp4_async"}

\* lines 199-209 (247-257): ffprobe; check_output raises when it fails
Mp4Probe(ok) ==
    /\ mpc = "probe"
    /\ mpc' = IF ok THEN "extract" ELSE "except"
    /\ UNCHANGED <<fn, files, astack, uuids, mout, frames, cur, logged, visited, kept, result>>

\* lines 211-216: os.system ignores ffmpeg's exit status; lines 259-265:
\* create_subprocess_shell may raise. ffmpeg leaves n frames, all or some.
Mp4Extract(ok, n) ==
    /\ mpc = "extract"
    /\ fn = "mp4" => ok
    /\ IF ok
       THEN /\ files' = [p \in AllPaths |->
                           IF \E k \in 1..n : p = FramePath(UuidName(uuids), k)
                           THEN "image" ELSE files[p]]
            /\ mpc' = "list"
       ELSE /\ UNCHANGED files
            /\ mpc' = "except"
    /\ UNCHANGED <<fn, astack, uuids, mout, frames, cur, logged, visited, kept, result>>

\* where the loop of line 220 goes at position c of list l
FrameLoopShort(c, l) == IF c < Len(l) THEN "corrupt" ELSE "reassemble"

FrameLoop(c, l) == IF c <= Len(l) THEN "corrupt" ELSE "reassemble"

\* lines 218-220 (267-269): prng = Random(seed); sorted(Path().rglob(...))
Mp4List ==
    /\ mpc = "list"
    /\ frames' = Sorted(RGlob)
    /\ cur' = 1
    /\ mpc' = FrameLoop(cur', frames')
    /\ UNCHANGED <<fn, mout, files, astack, uuids, logged, visited, kept, result>>

\* line 221 (270): jpeg(str(p), <a seed drawn from prng>, ..., inplace=True)
Mp4Corrupt(ok) ==
    /\ mpc = "corrupt"
    /\ IF ok
       THEN /\ files' = [files EXCEPT ![frames[cur]] = "glitched"]
            /\ cur' = cur + 1
            /\ mpc' = FrameLoop(cur', frames)
       ELSE /\ UNCHANGED <<files, cur>>
            /\ mpc' = "except"
    /\ UNCHANGED <<fn, astack, uuids, mout, frames, logged, visited, kept, result>>

\* lines 223-229: os.system, ffmpeg writes the video or fails unnoticed;
\* lines 272-279: create_subprocess_shell may raise
Mp4Reassemble(ok, wrote) ==
    /\ mpc = "reassemble"
    /\ fn = "mp4" => ok
    /\ IF ok
       THEN /\ files' = [files EXCEPT ![mout] = IF wrote THEN "video" ELSE @]
            /\ mpc' = "finally"
       ELSE /\ UNCHANGED files
            /\ mpc' = "except"
    /\ UNCHANGED <<fn, astack, uuids, mout, frames, cur, logged, visited, kept, result>>

\* lines 230-231 (280-281)
Mp4Except ==
    /\ mpc = "except"
    /\ logged' = TRUE
    /\ mpc' = "finally"
    /\ UNCHANGED <<fn, files, astack, uuids, mout, frames, cur, visited, kept, result>>

\* lines 232-237 (282-287): one iteration of the cleanup loop
Mp4Remove(p, ok) ==
    /\ mpc = "finally"
    /\ p \in RGlob \ visited
    /\ visited' = visited \cup {p}
    /\ IF ok
       THEN files' = [files EXCEPT ![p] = "absent"] /\ UNCHANGED kept
       ELSE kept' = kept \cup {p} /\ UNCHANGED files
    /\ UNCHANGED <<fn, astack, uuids, mpc, mout, frames, cur, logged, result>>

\* line 239 (289)
Mp4Return ==
    /\ mpc = "finally"
    /\ RGlob \subseteq visited
    /\ mpc' = "returned"
    /\ result' = "returned"
    /\ UNCHANGED <<fn, files, astack, uuids, mout, frames, cur, logged, visited, kept>>

uvars == <<jvars, tvars>>

AdapterNext ==
    \/ \E f \in {"png", "webp"}, ok \in BOOLEAN : Open(f, ok) /\ UNCHANGED uvars
    \/ \E f \in {"png", "webp"}, ok \in BOOLEAN : Save(f, ok) /\ UNCHANGED uvars
    \/ \E ok \in BOOLEAN : PngJpeg(ok) /\ UNCHANGED uvars
    \/ WebpPng /\ UNCHANGED uvars
    \/ \E f \in {"png", "webp"}, ok \in BOOLEAN : Convert(f, ok) /\ UNCHANGED uvars
    \/ \E f \in {"png", "webp"}, ok \in BOOLEAN : Remove(f, ok) /\ UNCHANGED uvars
    \/ Return /\ UNCHANGED uvars
    \/ \E ok \in BOOLEAN : Mp4Probe(ok) /\ UNCHANGED uvars
    \/ \E ok \in BOOLEAN, n \in 0..MaxFrames : Mp4Extract(ok, n) /\ UNCHANGED uvars
    \/ Mp4List /\ UNCHANGED uvars
    \/ \E ok \in BOOLEAN : Mp4Corrupt(ok) /\ UNCHANGED uvars
    \/ \E ok, wrote \in BOOLEAN : Mp4Reassemble(ok, wrote) /\ UNCHANGED uvars
    \/ Mp4Except /\ UNCHANGED uvars
    \/ \E p \in FramePaths, ok \in BOOLEAN : Mp4Remove(p, ok) /\ UNCHANGED uvars
    \/ Mp4Return /\ UNCHANGED uvars

SpecAdapters == AdapterInit /\ [][AdapterNext]_vars

\* C8 as stated: after mp4() or mp4_async() finishes, no intermediate frame file
\* of the call remains, whichever step failed.
C8_NoFrameRemains ==
    (IsMp4 /\ result = "returned") => \A p \in FramePaths : files[p] = "absent"

\* C8, amended: after mp4() or mp4_async() finishes, whichever step failed, every
\* intermediate frame file of the call has been passed to os.remove and one
\* remains only if its os.remove raised OSError; reassembly is started only after
\* every frame has been corrupted without error.
C8_BestEffortCleanup ==
    /\ (IsMp4 /\ result = "returned") =>
          \A p \in FramePaths : files[p] # "absent" => (p \in visited /\ p \in kept)
    /\ (IsMp4 /\ mpc = "reassemble") =>
          /\ ~logged
          /\ \A p \in FramePaths : files[p] \in {"absent", "glitched"}

C8_Witness ==
    /\ IsMp4 /\ result = "returned"
    /\ logged
    /\ Len(frames) = 2 /\ cur = 2
    /\ visited = {frames[1], frames[2]}
    /\ kept = {}
    /\ \A p \in FramePaths : files[p] = "absent"

\* C10: whenever png() or webp() exits, by returning or by raising from any
\* step, the intermediate file the call created no longer exists.
C10_TempRemoved ==
    (fn \in {"png", "webp"} /\ result \in {"returned", "raised"}) =>
        \A p \in TempPaths : files[p] = "absent"

=============================================================================
